---- MODULE Spec2Model ----
(***************************************************************************)
(* Model of the Gemini service layer (src/unnamed/part_000): the runtime   *)
(* credential slot, the retry executor executeWithRetry, and the stage     *)
(* functions that wrap one remote call (or, for generateVideo, a job       *)
(* submission, a polling loop and a media fetch) in it.                    *)
(*                                                                         *)
(* JavaScript strings are sequences: a key or a page text is a sequence of *)
(* characters, a prompt is the concatenation of its template segments      *)
(* (one element each) and the interpolated strings, an error message is a  *)
(* sequence of words.  One step of the model is one run-to-completion      *)
(* piece of the code between two suspension points (await of a remote      *)
(* call or of a timer).                                                    *)
(***************************************************************************)
EXTENDS Integers, Sequences, FiniteSets, TLC

\* ------------------------------------------------------------------ bounds
MaxKeyLen == 1      \* longest raw key handed to setApiKey
MaxLen == 1         \* longest confirmed page text / image description
MaxPolls == 2       \* most not-done job statuses the service reports per invocation

\* ------------------------------------------------------------ program constants
DefaultRetries == 3
DefaultBaseDelay == 2000
VideoRetriesDefault == DefaultRetries
VideoRetries == 1
PollInterval == 5000

\* --------------------------------------------------------------- strings
RECURSIVE SeqsUpTo(_, _)
SeqsUpTo(S, n) ==
  IF n = 0 THEN {<<>>}
  ELSE LET shorter == SeqsUpTo(S, n - 1)
       IN shorter \cup {Append(s, c) : s \in {t \in shorter : Len(t) = n - 1}, c \in S}

\* String.prototype.includes
Includes(s, sub) ==
  \E i \in 0..(Len(s) - Len(sub)) : SubSeq(s, i + 1, i + Len(sub)) = sub

\* "NP" stands for any character outside \x20-\x7E
KeyChars == {"k", " ", "NP"}
RawKeys == SeqsUpTo(KeyChars, MaxKeyLen)
IsPrintable(c) == c # "NP"

RECURSIVE TrimStart(_)
TrimStart(s) == IF s # <<>> /\ Head(s) = " " THEN TrimStart(Tail(s)) ELSE s
RECURSIVE TrimEnd(_)
TrimEnd(s) ==
  IF s # <<>> /\ s[Len(s)] = " " THEN TrimEnd(SubSeq(s, 1, Len(s) - 1)) ELSE s
Trim(s) == TrimEnd(TrimStart(s))

\* key.replace(/[^\x20-\x7E]/g, '').trim()
Sanitize(key) == Trim(SelectSeq(key, IsPrintable))

\* ----------------------------------------------------------------- errors
\* status 0 stands for an error object without a status property
MkError(message, status) == [message |-> message, status |-> status]
MissingCredential == MkError(<<"API Key missing">>, 0)
VideoFailed == MkError(<<"video generation failed">>, 0)
NoAudioData == MkError(<<"no audio data received">>, 0)
NoDialogueAudio == MkError(<<"no audio produced">>, 0)
NoImage == MkError(<<"no image produced">>, 0)
ImageServiceMessage == <<"image service error">>
NoError == MkError(<<"-">>, 0)

\* failures a remote call (or fetch) can produce
RemoteErrors ==
  { MkError(<<"got", "429", "Too Many Requests">>, 0),
    MkError(<<"RESOURCE_EXHAUSTED">>, 0),
    MkError(<<"Quota exceeded", "for", "model">>, 0),
    MkError(<<"Service", "unavailable">>, 429),
    MkError(<<"Internal", "error">>, 500),
    MkError(<<>>, 0) }

\* ------------------------------------------------------------- responses
\* page fields, free-text arguments and reply texts
Strs == SeqsUpTo({"a", "b"}, MaxLen)
FreeTexts == {<<>>, <<"x">>}
ReplyTexts == {<<>>, <<"e">>}

\* JavaScript values met in a parsed body
JUndefined == [t |-> "undefined", v |-> ""]
JNull == [t |-> "null", v |-> ""]
JStr(s) == [t |-> "string", v |-> s]
JNum(n) == [t |-> "number", v |-> n]
FieldValues == {JUndefined, JNull, JStr(""), JStr("abc"), JNum("5")}
Truthy(x) ==
  CASE x.t = "undefined" -> FALSE
    [] x.t = "null" -> FALSE
    [] x.t = "string" -> x.v # ""
    [] x.t = "number" -> x.v # "0"
    [] OTHER -> TRUE

\* a JSON document, by the value it denotes
JsonDoc(t, a, x, d) == [t |-> t, analysis |-> a, text |-> x, description |-> d]
JsonObjects == {JsonDoc("object", a, x, d) : a \in FieldValues, x \in FieldValues, d \in FieldValues}
JsonScalars == {JsonDoc(t, JUndefined, JUndefined, JUndefined) : t \in {"null", "number", "string", "array"}}
NoJson == JsonDoc("none", JUndefined, JUndefined, JUndefined)

\* response.text: absent, a plain (non-JSON) string, or the text of a JSON document
TextUndefined == [form |-> "undefined", s |-> <<>>, j |-> NoJson]
TextPlain(s) == [form |-> "plain", s |-> s, j |-> NoJson]
TextJson(j) == [form |-> "json", s |-> <<"{json}">>, j |-> j]
PlainTexts == {TextUndefined} \cup {TextPlain(s) : s \in ReplyTexts}
PageTexts == PlainTexts \cup {TextJson(j) : j \in JsonObjects \cup JsonScalars}
TextFalsy(x) == x.form = "undefined" \/ (x.form = "plain" /\ x.s = <<>>)

\* candidates[0].content.parts of a response; inline is "" for a part without inlineData
PartsLists == {<<>>, <<[inline |-> ""]>>, <<[inline |-> "AAAA"]>>,
               <<[inline |-> ""], [inline |-> "BBBB"]>>,
               <<[inline |-> "AAAA"], [inline |-> "BBBB"]>>}
MkResponse(text, parts) == [text |-> text, parts |-> parts]
NoResponse == MkResponse(TextUndefined, <<>>)

\* job handles returned by generateVideos / getVideosOperation; uri "" is an absent locator
Uris == {"", "https://video/1?alt=media"}
Operations == {[done |-> d, uri |-> u] : d \in BOOLEAN, u \in Uris}
NoOperation == [done |-> FALSE, uri |-> ""]
Bodies == {"mp4-bytes", "other-bytes"}

\* ----------------------------------------------------------------- stages
PromptStages == {"generateTeacherScript", "generateStoryboardPrompt",
                 "generateVideoPrompt", "generateDialogue"}
TextStages == PromptStages \cup {"analyzeCourseMap"}
MediaStages == {"generateSpeech", "generateStoryboardImage", "generateMultiSpeakerAudio"}
Stages == TextStages \cup MediaStages \cup {"analyzeSinglePage", "generateVideo", "translateToEnglish"}

\* arguments held fixed: the page image, the course context, the page analysis, the teacher script
imageBase64 == <<"img">>
globalContext == <<"ctx">>
pageAnalysis == <<"ana">>
teacherScript == <<"scr">>

\* text is the free-text argument of a stage: text, userPrompt, promptText, script or context
MkArgs(T, D, x) == [verifiedText |-> T, verifiedDescription |-> D, text |-> x]
NoArgs == MkArgs(<<>>, <<>>, <<>>)

\* the Page a stage is invoked for (src/types.ts PageData), and the free text handed to it
MkPage(T, D) == [extractedText |-> T, imageDescription |-> D]
NoPage == MkPage(<<>>, <<>>)
PagesOf(st) == IF st \in PromptStages THEN {MkPage(T, D) : T \in Strs, D \in Strs} ELSE {NoPage}
TextsOf(st) == IF st \in PromptStages \cup {"analyzeSinglePage"} THEN {<<>>} ELSE FreeTexts

\* the parameters each stage function takes, bound to the confirmed fields of the page
ArgsOf(st, pg, x) ==
  CASE st = "generateTeacherScript" -> MkArgs(pg.extractedText, pg.imageDescription, <<>>)
    [] st \in {"generateStoryboardPrompt", "generateVideoPrompt"} -> MkArgs(<<>>, pg.imageDescription, <<>>)
    [] st = "generateDialogue" -> MkArgs(pg.extractedText, <<>>, <<>>)
    [] st = "analyzeSinglePage" -> NoArgs
    [] OTHER -> MkArgs(<<>>, <<>>, x)

\* the prompt template of each stage: one element per literal segment
TranslatePrompt(text) == <<"Translate the following text to English ... Text: ">> \o text
PagePrompt == <<"analyse this page; output JSON {analysis, text, description}">>
CourseMapPrompt(context) == <<"role: planner; teacher context: \"">> \o context \o <<"\" pages, instructions">>
TeacherPromptWithoutDescription(g, p, verifiedText, verifiedDescription) ==
  <<"course context: ">> \o g \o <<"page analysis: ">> \o p
    \o <<"*** source of truth *** - exact page text: \"">> \o verifiedText
    \o <<"\" warning: teach only from the above; task; rules">>
TeacherPrompt(g, p, verifiedText, verifiedDescription) ==
  <<"course context: ">> \o g \o <<"page analysis: ">> \o p
    \o <<"*** source of truth *** - exact page text: \"">> \o verifiedText
    \o <<"\" - exact image description: \"">> \o verifiedDescription
    \o <<"\" warning: teach only from the above; task; rules">>
StoryboardPrompt(verifiedDescription) ==
  <<"source of truth (verified image description): \"">> \o verifiedDescription
    \o <<"\" role: art director; task; rules">>
VideoPrompt(verifiedDescription) ==
  <<"source of truth (verified description): \"">> \o verifiedDescription
    \o <<"\" role: animation director; task">>
DialoguePrompt(script, verifiedText) ==
  <<"verified page information: \"">> \o verifiedText
    \o <<"\" teacher script: \"">> \o script \o <<"\" task; format">>
FinalImagePrompt(promptText) == promptText \o <<" . (Create a clean educational vector illustration. ...)">>
MultiSpeakerPrompt(script) == <<"TTS the following conversation:\n">> \o script

\* the text part of the generateContent request a stage assembles
Request(st, a) ==
  CASE st = "translateToEnglish" -> TranslatePrompt(a.text)
    [] st = "analyzeSinglePage" -> PagePrompt
    [] st = "analyzeCourseMap" -> CourseMapPrompt(a.text)
    [] st = "generateTeacherScript" ->
         TeacherPrompt(globalContext, pageAnalysis, a.verifiedText, a.verifiedDescription)
    [] st = "generateSpeech" -> a.text
    [] st = "generateStoryboardPrompt" -> StoryboardPrompt(a.verifiedDescription)
    [] st = "generateStoryboardImage" -> FinalImagePrompt(a.text)
    [] st = "generateVideoPrompt" -> VideoPrompt(a.verifiedDescription)
    [] st = "generateDialogue" -> DialoguePrompt(teacherScript, a.verifiedText)
    [] st = "generateMultiSpeakerAudio" -> MultiSpeakerPrompt(a.text)
    [] OTHER -> <<>>

\* responses the service can give to a stage's generateContent call
ResponsesOf(st) ==
  CASE st = "analyzeSinglePage" -> {MkResponse(t, <<>>) : t \in PageTexts}
    [] st \in MediaStages -> {MkResponse(TextUndefined, ps) : ps \in PartsLists}
    [] OTHER -> {MkResponse(t, <<>>) : t \in PlainTexts}

\* ------------------------------------------------------- stage results
MkResult(kind, v) == [kind |-> kind, v |-> v]
NoResult == MkResult("none", <<>>)
Returned(r) == [threw |-> FALSE, value |-> r, err |-> NoError]
Threw(e) == [threw |-> TRUE, value |-> NoResult, err |-> e]

\* response.text || fallback
TextOrNoFallback(text, fallback) == text.s
TextOr(text, fallback) == IF TextFalsy(text) THEN fallback ELSE text.s

FallbackOf(st, a) ==
  CASE st = "translateToEnglish" -> a.text
    [] st = "analyzeCourseMap" -> <<"analysis not done">>
    [] st = "generateTeacherScript" -> <<"error producing teacher text">>
    [] st = "generateStoryboardPrompt" -> <<"error producing prompt">>
    [] OTHER -> <<>>

\* JSON.parse(response.text || "{}") and the three field reads, lines 93-102
EmptyObject == JsonDoc("object", JUndefined, JUndefined, JUndefined)
ParseFails(text) == text.form = "plain" /\ text.s # <<>>
Parsed(text) == IF TextFalsy(text) THEN EmptyObject ELSE text.j
Field(doc, f) == IF doc.t = "object" THEN doc[f] ELSE JUndefined
OrEmpty(x) == IF Truthy(x) THEN x ELSE JStr("")
PageFallback == [analysis |-> JStr("processing error"), text |-> JStr(""), description |-> JStr("")]
ParsePage(text) ==
  IF ParseFails(text) \/ Parsed(text).t = "null"
  THEN PageFallback
  ELSE [analysis |-> OrEmpty(Field(Parsed(text), "analysis")),
        text |-> OrEmpty(Field(Parsed(text), "text")),
        description |-> OrEmpty(Field(Parsed(text), "description"))]

\* candidates?.[0]?.content?.parts?.[0]?.inlineData?.data
FirstInline(parts) == IF parts = <<>> THEN "" ELSE parts[1].inline
\* the first part carrying inlineData, lines 279-285
InlinePartsUnchecked(parts) == parts
InlineParts(parts) == SelectSeq(parts, LAMBDA p : p.inline # "")
\* pcmToWav(decodeBase64(data), 24000, 1)
Wav(data) == MkResult("wav", <<data, "24000", "1">>)

\* what the body of a stage's wrapped operation does with a successful response
Interpret(st, a, resp) ==
  CASE st = "analyzeSinglePage" -> Returned(MkResult("page", ParsePage(resp.text)))
    [] st = "generateSpeech" ->
         IF FirstInline(resp.parts) = "" THEN Threw(NoAudioData)
         ELSE Returned(Wav(FirstInline(resp.parts)))
    [] st = "generateMultiSpeakerAudio" ->
         IF FirstInline(resp.parts) = "" THEN Threw(NoDialogueAudio)
         ELSE Returned(Wav(FirstInline(resp.parts)))
    [] st = "generateStoryboardImage" ->
         IF InlineParts(resp.parts) = <<>> THEN Threw(NoImage)
         ELSE Returned(MkResult("image", <<"data:image/png;base64,", InlineParts(resp.parts)[1].inline>>))
    [] OTHER -> Returned(MkResult("text", TextOr(resp.text, FallbackOf(st, a))))

\* the error the wrapped operation throws when its remote call rejects with e:
\* generateStoryboardImage rethrows new Error(error.message || "..."), lines 288-290
Rethrown(st, e) ==
  IF st = "generateStoryboardImage"
  THEN MkError(IF e.message # <<>> THEN e.message ELSE ImageServiceMessage, 0)
  ELSE e

\* ---------------------------------------------------------- retry executor
\* lines 24-28
isQuotaError(error) ==
  \/ Includes(error.message, <<"429">>)
  \/ Includes(error.message, <<"RESOURCE_EXHAUSTED">>)
  \/ Includes(error.message, <<"Quota exceeded">>)
  \/ error.status = 429

\* ------------------------------------------------------------------ state
VARIABLES
  runtimeApiKey,    \* the credential slot, line 5
  pc,               \* "idle" | "remote" | "backoff" | "pollwait" | "done" | "failed"
  stage,            \* the stage function invoked
  page,             \* the Page it is invoked for
  args,             \* its arguments
  startKey,         \* the slot's value when the invocation started
  ai,               \* apiKey of the client getAiClient built for the invocation
  phase,            \* generateVideo: "translate" while translateToEnglish runs, else "main"
  retries,          \* executeWithRetry's retries parameter of the current call
  baseDelay,        \* executeWithRetry's baseDelay parameter of the current call
  pending,          \* the outstanding remote interaction
  operation,        \* generateVideo's local variable operation
  englishPrompt,    \* generateVideo's local variable englishPrompt
  polls,            \* not-done statuses reported so far in this invocation
  lastRemoteError,  \* the failure of the remote interaction rejected in the current attempt
  lastResponse,     \* the response of the generateContent call that resolved last
  log,              \* history of the invocation: executor entries, attempts, calls, waits, throws
  result,           \* value the invocation resolved with
  error             \* error the invocation rejected with

vars == <<runtimeApiKey, pc, stage, page, args, startKey, ai, phase, retries, baseDelay, pending,
          operation, englishPrompt, polls, lastRemoteError, lastResponse, log, result, error>>

MkCall(kind, req, key) == [kind |-> kind, req |-> req, key |-> key]
NoCall == MkCall("none", <<>>, <<>>)

\* log entries
Ev(e, k, d) == [e |-> e, k |-> k, d |-> d]
EvExec(n) == Ev("exec", "", n)             \* a stage enters executeWithRetry with budget n
EvFn == Ev("fn", "", 0)                    \* executeWithRetry calls the wrapped operation
EvCall(kind) == Ev("call", kind, 0)        \* a remote interaction is issued
EvWait(kind, d) == Ev("wait", kind, d)     \* a timer of d units is started
EvThrow(e) == Ev("throw", IF isQuotaError(e) THEN "quota" ELSE "other", 0)

Init ==
  /\ runtimeApiKey = <<>>
  /\ pc = "idle"
  /\ stage = "none"
  /\ page = NoPage
  /\ args = NoArgs
  /\ startKey = <<>>
  /\ ai = <<>>
  /\ phase = "main"
  /\ retries = 0
  /\ baseDelay = 0
  /\ pending = NoCall
  /\ operation = NoOperation
  /\ englishPrompt = <<>>
  /\ polls = 0
  /\ lastRemoteError = NoError
  /\ lastResponse = NoResponse
  /\ log = <<>>
  /\ result = NoResult
  /\ error = NoError

\* lines 7-10
setApiKey(key) ==
  /\ runtimeApiKey' = Sanitize(key)
  /\ UNCHANGED <<pc, stage, page, args, startKey, ai, phase, retries, baseDelay, pending,
                 operation, englishPrompt, polls, lastRemoteError, lastResponse, log, result, error>>

\* lines 12-17: does getAiClient throw for this stage with this slot value
getAiClientChecksUndefined(st, key) == key = <<"undefined">>
getAiClientThrows(st, key) == key = <<>>

\* the remote call the wrapped operation of a stage issues first
FirstCallTranslatesInside(st, a, ph, prompt, key) ==
  IF st = "generateVideo"
  THEN IF ph = "translate" \/ pc = "backoff"
       THEN MkCall("generateContent", TranslatePrompt(a.text), key)
       ELSE MkCall("generateVideos", prompt, key)
  ELSE MkCall("generateContent", Request(st, a), key)
FirstCall(st, a, ph, prompt, key) ==
  IF st = "generateVideo"
  THEN IF ph = "translate"
       THEN MkCall("generateContent", TranslatePrompt(a.text), key)
       ELSE MkCall("generateVideos", prompt, key)
  ELSE MkCall("generateContent", Request(st, a), key)

\* a caller invokes a stage function: getAiClient, request assembly, and the
\* first attempt of the wrapped operation up to its first await
Invoke(st, pg, x) ==
  /\ pc = "idle"
  /\ stage' = st
  /\ page' = pg
  /\ args' = ArgsOf(st, pg, x)
  /\ startKey' = runtimeApiKey
  /\ IF getAiClientThrows(st, runtimeApiKey)
     THEN /\ pc' = "failed"
          /\ error' = MissingCredential
          /\ UNCHANGED <<ai, phase, retries, baseDelay, pending, log>>
     ELSE /\ pc' = "remote"
          /\ ai' = Sanitize(runtimeApiKey)
          /\ phase' = IF st = "generateVideo" THEN "translate" ELSE "main"
          /\ retries' = DefaultRetries
          /\ baseDelay' = DefaultBaseDelay
          /\ pending' = FirstCall(st, args', phase', <<>>, ai')
          /\ log' = <<EvExec(DefaultRetries), EvFn, EvCall("generateContent")>>
          /\ UNCHANGED error
  /\ UNCHANGED <<runtimeApiKey, operation, englishPrompt, polls, lastRemoteError,
                 lastResponse, result>>

\* lines 23-36: the catch block of executeWithRetry, entered with the error the
\* wrapped operation threw, after the events evs of the current step
ShouldRetryAnyError(n, e) == n > 0
ShouldRetryOnceMore(n, e) == n >= 0 /\ isQuotaError(e)
ShouldRetry(n, e) == n > 0 /\ isQuotaError(e)
Catch(e, evs) ==
  /\ pending' = NoCall
  /\ IF ShouldRetry(retries, e)
     THEN /\ pc' = "backoff"
          /\ log' = log \o evs \o <<EvThrow(e), EvWait("backoff", baseDelay)>>
          /\ UNCHANGED error
     ELSE /\ pc' = "failed"
          /\ log' = log \o evs \o <<EvThrow(e)>>
          /\ error' = e

\* the outstanding remote interaction fails with e
RemoteReject(e) ==
  /\ pc = "remote"
  /\ lastRemoteError' = e
  /\ Catch(Rethrown(stage, e), <<>>)
  /\ UNCHANGED <<runtimeApiKey, stage, page, args, startKey, ai, phase, retries, baseDelay,
                 operation, englishPrompt, polls, lastResponse, result>>

\* line 32-33: the backoff timer fires and executeWithRetry recurses
NextDelayLinear(d) == d + 2000
NextDelay(d) == d * 2
BackoffElapsed ==
  /\ pc = "backoff"
  /\ pc' = "remote"
  /\ retries' = retries - 1
  /\ baseDelay' = NextDelay(baseDelay)
  /\ pending' = FirstCall(stage, args, phase, englishPrompt, ai)
  /\ log' = log \o <<EvFn, EvCall(pending'.kind)>>
  /\ lastRemoteError' = NoError
  /\ UNCHANGED <<runtimeApiKey, stage, page, args, startKey, ai, phase, operation, englishPrompt,
                 polls, lastResponse, result, error>>

\* a generateContent call resolves in a stage other than generateVideo
ContentResolved(resp) ==
  /\ pc = "remote"
  /\ pending.kind = "generateContent"
  /\ stage # "generateVideo"
  /\ resp \in ResponsesOf(stage)
  /\ lastResponse' = resp
  /\ LET out == Interpret(stage, args, resp)
     IN IF out.threw
        THEN Catch(Rethrown(stage, out.err), <<>>) /\ UNCHANGED result
        ELSE /\ pc' = "done"
             /\ pending' = NoCall
             /\ result' = out.value
             /\ UNCHANGED <<log, error>>
  /\ UNCHANGED <<runtimeApiKey, stage, page, args, startKey, ai, phase, retries, baseDelay,
                 operation, englishPrompt, polls, lastRemoteError>>

\* generateVideo: translateToEnglish resolves (line 47) and the job is
\* submitted inside executeWithRetry(..., 1), lines 327-342
TranslateResolved(resp) ==
  /\ pc = "remote"
  /\ pending.kind = "generateContent"
  /\ stage = "generateVideo"
  /\ resp \in ResponsesOf("translateToEnglish")
  /\ lastResponse' = resp
  /\ englishPrompt' = TextOr(resp.text, FallbackOf("translateToEnglish", args))
  /\ phase' = "main"
  /\ retries' = VideoRetries
  /\ baseDelay' = DefaultBaseDelay
  /\ pending' = FirstCall(stage, args, "main", englishPrompt', ai)
  /\ log' = log \o <<EvExec(VideoRetries), EvFn, EvCall("generateVideos")>>
  /\ UNCHANGED <<runtimeApiKey, pc, stage, page, args, startKey, ai, operation, polls,
                 lastRemoteError, result, error>>

\* lines 344-352: generateVideos or getVideosOperation resolves with a job handle
MediaUrlWithoutKey(videoUri, key) == <<videoUri>>
MediaUrl(videoUri, key) == <<videoUri, "&key=">> \o key
\* line 349-350: !videoUri
LocatorNotChecked(op) == FALSE
LocatorMissing(op) == op.uri = ""
\* line 344: while (!operation.done)
LoopContinuesCapped(op) == ~op.done /\ polls < 1
LoopContinuesAlways(op) == TRUE
LoopContinues(op) == ~op.done
\* line 345: what is outstanding while the poll timer runs; the timer is
\* awaited before getVideosOperation is called at line 346
DuringPollWaitNotAwaited(key) == MkCall("getVideosOperation", <<>>, key)
DuringPollWait(key) == NoCall
OperationResolved(op) ==
  /\ pc = "remote"
  /\ pending.kind \in {"generateVideos", "getVideosOperation"}
  /\ ~op.done => polls < MaxPolls
  /\ operation' = op
  /\ polls' = IF op.done THEN polls ELSE polls + 1
  /\ IF LoopContinues(op)
     THEN /\ pc' = "pollwait"
          /\ pending' = DuringPollWait(ai)
          /\ log' = Append(log, EvWait("poll", PollInterval))
          /\ UNCHANGED error
     ELSE IF LocatorMissing(op)
          THEN Catch(VideoFailed, <<>>)
          ELSE /\ pending' = MkCall("fetch", MediaUrl(op.uri, runtimeApiKey), <<>>)
               /\ log' = Append(log, EvCall("fetch"))
               /\ UNCHANGED <<pc, error>>
  /\ UNCHANGED <<runtimeApiKey, stage, page, args, startKey, ai, phase, retries, baseDelay,
                 englishPrompt, lastRemoteError, lastResponse, result>>

\* lines 345-346: the poll timer fires and the job status is fetched again
PollElapsed ==
  /\ pc = "pollwait"
  /\ pc' = "remote"
  /\ pending' = MkCall("getVideosOperation", <<>>, ai)
  /\ log' = Append(log, EvCall("getVideosOperation"))
  /\ UNCHANGED <<runtimeApiKey, stage, page, args, startKey, ai, phase, retries, baseDelay,
                 operation, englishPrompt, polls, lastRemoteError, lastResponse, result, error>>

\* lines 352-353: fetch resolves with a response carrying body; response.blob() is awaited
FetchResolved(body) ==
  /\ pc = "remote"
  /\ pending.kind = "fetch"
  /\ pending' = MkCall("blob", pending.req \o <<body>>, <<>>)
  /\ UNCHANGED <<runtimeApiKey, pc, stage, page, args, startKey, ai, phase, retries, baseDelay,
                 operation, englishPrompt, polls, lastRemoteError, lastResponse, log, result, error>>

\* line 353: response.blob() resolves and generateVideo returns it
BlobResolved ==
  /\ pc = "remote"
  /\ pending.kind = "blob"
  /\ pc' = "done"
  /\ pending' = NoCall
  /\ result' = MkResult("blob", pending.req)
  /\ UNCHANGED <<runtimeApiKey, stage, page, args, startKey, ai, phase, retries, baseDelay,
                 operation, englishPrompt, polls, lastRemoteError, lastResponse, log, error>>

\* the caller takes the outcome; the invocation's locals are gone
Return ==
  /\ pc \in {"done", "failed"}
  /\ pc' = "idle"
  /\ stage' = "none"
  /\ page' = NoPage
  /\ args' = NoArgs
  /\ startKey' = <<>>
  /\ ai' = <<>>
  /\ phase' = "main"
  /\ retries' = 0
  /\ baseDelay' = 0
  /\ pending' = NoCall
  /\ operation' = NoOperation
  /\ englishPrompt' = <<>>
  /\ polls' = 0
  /\ lastRemoteError' = NoError
  /\ lastResponse' = NoResponse
  /\ log' = <<>>
  /\ result' = NoResult
  /\ error' = NoError
  /\ UNCHANGED runtimeApiKey

Next ==
  \/ \E key \in RawKeys : setApiKey(key)
  \/ \E st \in Stages : \E pg \in PagesOf(st) : \E x \in TextsOf(st) : Invoke(st, pg, x)
  \/ \E e \in RemoteErrors : RemoteReject(e)
  \/ BackoffElapsed
  \/ \E resp \in ResponsesOf(stage) : ContentResolved(resp)
  \/ \E resp \in ResponsesOf("translateToEnglish") : TranslateResolved(resp)
  \/ \E op \in Operations : OperationResolved(op)
  \/ PollElapsed
  \/ \E body \in Bodies : FetchResolved(body)
  \/ BlobResolved
  \/ Return

Spec == Init /\ [][Next]_vars

TypeOK ==
  /\ runtimeApiKey \in {Sanitize(k) : k \in RawKeys}
  /\ pc \in {"idle", "remote", "backoff", "pollwait", "done", "failed"}
  /\ stage \in Stages \cup {"none"}
  /\ retries \in 0..DefaultRetries
  /\ polls \in 0..MaxPolls
  /\ (pc = "remote") = (pending # NoCall)

\* ---------------------------------------------------- reading the history
Count(l, ev) == Cardinality({i \in 1..Len(l) : l[i] = ev})
IsBackoff(ev) == ev.e = "wait" /\ ev.k = "backoff"
\* the part of the history that belongs to the executeWithRetry entered last
ExecStart(l) == CHOOSE i \in 1..Len(l) : l[i].e = "exec" /\ \A j \in (i + 1)..Len(l) : l[j].e # "exec"
CurExec(l) == SubSeq(l, ExecStart(l), Len(l))
Budget(l) == l[ExecStart(l)].d
\* its attempts and backoff waits, in order
AttemptsAndWaits(l) == SelectSeq(CurExec(l), LAMBDA ev : ev.e = "fn" \/ IsBackoff(ev))
Throws(l) == SelectSeq(CurExec(l), LAMBDA ev : ev.e = "throw")
ThrowQuota == Ev("throw", "quota", 0)
ThrowOther == Ev("throw", "other", 0)
RECURSIVE Pow2(_)
Pow2(n) == IF n = 0 THEN 1 ELSE 2 * Pow2(n - 1)

\* C1: when the wrapped operation fails with a rate-limit indication on every
\* attempt, executeWithRetry calls it exactly retries+1 times, waits
\* baseDelay*2^(i-1) before the i-th retry and then rejects with the error of
\* the last attempt; with retries=3 and baseDelay=2000: 4 calls, waits 2000,
\* 4000, 8000 between them.
C1_ExhaustedBudget ==
  (pc = "failed" /\ log # <<>> /\ \A i \in 1..Len(Throws(log)) : Throws(log)[i] = ThrowQuota)
    => /\ Len(AttemptsAndWaits(log)) = 2 * Budget(log) + 1
       /\ \A i \in 1..Len(AttemptsAndWaits(log)) :
            AttemptsAndWaits(log)[i] =
              IF i % 2 = 1 THEN Ev("fn", "", 0)
              ELSE Ev("wait", "backoff", 2000 * Pow2((i \div 2) - 1))
       /\ Len(Throws(log)) = Budget(log) + 1
       /\ log[Len(log)] = ThrowQuota
       /\ error = Rethrown(stage, lastRemoteError)
       /\ (Budget(log) = 3 =>
             AttemptsAndWaits(log) =
               <<Ev("fn", "", 0), Ev("wait", "backoff", 2000), Ev("fn", "", 0),
                 Ev("wait", "backoff", 4000), Ev("fn", "", 0),
                 Ev("wait", "backoff", 8000), Ev("fn", "", 0)>>)

C1_Witness ==
  /\ pc = "failed"
  /\ stage = "analyzeCourseMap"
  /\ log # <<>>
  /\ Count(log, Ev("fn", "", 0)) = 4
  /\ Count(log, Ev("wait", "backoff", 8000)) = 1
  /\ log[Len(log)] = ThrowQuota

\* C2: an attempt that fails with an error that is not rate-limited makes
\* executeWithRetry reject with that error in the same step, with no wait and
\* no further call of the operation, whatever budget remains and also when the
\* attempt is a retry; nothing is called or awaited after the rejection.
C2_NonRetryablePropagates ==
  [][ /\ (pc = "remote" /\ \E i \in (Len(log) + 1)..Len(log') : log'[i] = ThrowOther)
        => /\ pc' = "failed"
           /\ log' = Append(log, ThrowOther)
           /\ pending' = [kind |-> "none", req |-> <<>>, key |-> <<>>]
           /\ retries' = retries
           /\ lastRemoteError' # NoError => error' = Rethrown(stage, lastRemoteError')
      /\ (pc = "failed" /\ pc' # "idle")
        => pc' = "failed" /\ log' = log /\ error' = error /\ pending' = pending
    ]_vars

C2_Witness ==
  /\ pc = "failed"
  /\ log # <<>>
  /\ log[Len(log)] = ThrowOther
  /\ Count(log, Ev("wait", "backoff", 2000)) = 1
  /\ retries = 2
  /\ error = MkError(<<"Internal", "error">>, 500)

\* C3: executeWithRetry returns as soon as an attempt succeeds: when attempt k
\* (1 <= k <= retries+1) succeeds after k-1 rate-limited failures its result
\* is returned, the operation has been called exactly k times with k-1 backoff
\* waits, and no wait or call follows the success.
C3_ReturnsOnSuccess ==
  [][ /\ (pc = "remote" /\ pc' = "done")
        => /\ log' = log
           /\ log[Len(log)].e = "call"
           /\ pending' = [kind |-> "none", req |-> <<>>, key |-> <<>>]
           /\ Count(CurExec(log), Ev("fn", "", 0)) = Len(Throws(log)) + 1
           /\ Count(CurExec(log), Ev("fn", "", 0)) <= Budget(log) + 1
           /\ Len(SelectSeq(CurExec(log), IsBackoff)) = Len(Throws(log))
           /\ \A i \in 1..Len(Throws(log)) : Throws(log)[i] = ThrowQuota
           /\ stage \in TextStages =>
                result' = [kind |-> "text",
                           v |-> IF lastResponse'.text.form = "plain" /\ lastResponse'.text.s # <<>>
                                 THEN lastResponse'.text.s ELSE FallbackOf(stage, args)]
           /\ stage = "generateVideo" => result' = [kind |-> "blob", v |-> pending.req]
      /\ (pc = "done" /\ pc' # "idle")
        => pc' = "done" /\ log' = log /\ result' = result /\ pending' = pending
    ]_vars

C3_Witness ==
  /\ pc = "done"
  /\ stage = "generateTeacherScript"
  /\ Count(log, Ev("fn", "", 0)) = 4
  /\ Count(log, Ev("wait", "backoff", 8000)) = 1
  /\ result = MkResult("text", <<"e">>)

\* C4: every stage function (and the translation step) invoked while the
\* credential slot is empty fails with MissingCredential before any remote
\* call, wait or fetch is issued.
C4_MissingCredentialFirst ==
  (pc # "idle" /\ startKey = <<>>)
    => /\ pc = "failed"
       /\ error = MkError(<<"API Key missing">>, 0)
       /\ log = <<>>
       /\ pending.kind = "none"
       /\ lastRemoteError = NoError

C4_Witness ==
  /\ pc = "failed"
  /\ stage = "generateVideo"
  /\ runtimeApiKey = <<>>
  /\ startKey = <<>>
  /\ error = MissingCredential

\* C5: in generateVideo every not-done status observed is followed by one
\* 5000-unit wait and then one status re-fetch, so the re-fetch calls number
\* the not-done statuses observed (2 for [pending, pending, done-with-locator]);
\* the media fetch goes to the completed job's locator with the credential
\* appended, and the blob returned is the body of that fetch.
C5_PollState ==
  stage = "generateVideo" =>
    /\ Count(log, Ev("wait", "poll", 5000)) = polls
    /\ Count(log, Ev("call", "getVideosOperation", 0)) = polls - (IF pc = "pollwait" THEN 1 ELSE 0)
    /\ \A i \in 1..Len(log) :
         /\ (log[i].e = "wait" /\ log[i].k = "poll") =>
               /\ log[i].d = 5000
               /\ IF i = Len(log) THEN pc = "pollwait"
                  ELSE log[i + 1] = Ev("call", "getVideosOperation", 0)
         /\ log[i] = Ev("call", "getVideosOperation", 0) =>
               i > 1 /\ log[i - 1] = Ev("wait", "poll", 5000)
    /\ pc = "done" =>
         /\ operation.done /\ operation.uri # ""
         /\ log[Len(log)] = Ev("call", "fetch", 0)
         /\ result.kind = "blob"
         /\ Len(result.v) >= 3
         /\ result.v[1] = operation.uri
         /\ result.v[2] = "&key="
         /\ result.v[Len(result.v)] \in Bodies
C5_PollerFetchesCompletedJob ==
  [][ /\ <<pc, log, polls, operation, result>>' # <<pc, log, polls, operation, result>>
           => C5_PollState'
      /\ (pending.kind # "fetch" /\ pending'.kind = "fetch")
           => /\ operation'.done
              /\ pending'.req = <<operation'.uri, "&key=">> \o runtimeApiKey
      /\ (pending.kind = "fetch" /\ pending'.kind = "blob")
           => \E body \in Bodies : pending'.req = Append(pending.req, body)
    ]_vars

C5_Witness ==
  /\ pc = "done"
  /\ stage = "generateVideo"
  /\ polls = 2
  /\ Count(log, Ev("call", "getVideosOperation", 0)) = 2
  /\ Count(log, Ev("call", "generateVideos", 0)) = 1
  /\ result.v = <<"https://video/1?alt=media", "&key=", "k", "mp4-bytes">>

\* C6: in generateVideo a status that reports completion without a result
\* locator makes the invocation fail with VideoFailed, with no status re-fetch
\* and no media fetch after it.
C6_DoneWithoutLocatorFails ==
  (stage = "generateVideo" /\ operation.done /\ operation.uri = "")
    => /\ pc = "failed"
       /\ error = MkError(<<"video generation failed">>, 0)
       /\ pending.kind = "none"
       /\ log[Len(log)] = ThrowOther
       /\ log[Len(log) - 1].e = "call"
       /\ log[Len(log) - 1].k \in {"generateVideos", "getVideosOperation"}

C6_Witness ==
  /\ pc = "failed"
  /\ stage = "generateVideo"
  /\ operation.done
  /\ operation.uri = ""
  /\ polls = 2
  /\ error = VideoFailed

\* C7 (as amended): with a Page whose confirmed extractedText is T and
\* imageDescription is D, the request of generateTeacherScript contains both T
\* and D as unmodified substrings, the requests of generateStoryboardPrompt and
\* generateVideoPrompt contain D, and the request of generateDialogue contains
\* T, on the first attempt and on every retry.
C7_VerifiedFieldsVerbatim ==
  (pc = "remote" /\ stage \in PromptStages)
    => /\ pending.kind = "generateContent"
       /\ stage \in {"generateTeacherScript", "generateDialogue"}
            => Includes(pending.req, page.extractedText)
       /\ stage \in {"generateTeacherScript", "generateStoryboardPrompt", "generateVideoPrompt"}
            => Includes(pending.req, page.imageDescription)

C7_Witness ==
  /\ pc = "remote"
  /\ stage = "generateTeacherScript"
  /\ page = MkPage(<<"a">>, <<"b">>)
  /\ retries = 2
  /\ Includes(pending.req, <<"a">>)
  /\ Includes(pending.req, <<"b">>)

\* C7 (as claimed): the request of every downstream stage (teacher script,
\* storyboard prompt, video prompt, dialogue script) contains both T and D.
C7_EveryStageEmbedsBoth ==
  (pc = "remote" /\ stage \in PromptStages)
    => /\ Includes(pending.req, page.extractedText)
       /\ Includes(pending.req, page.imageDescription)

\* C8 (as claimed): when analyzeSinglePage receives a successful response whose
\* body is not JSON or violates the three-string-field schema, it does not
\* raise or retry and returns the fallback object: the error marker in
\* analysis, empty strings in text and description.
IsStringField(x) == x.t = "string"
SchemaConforming(j) ==
  j.t = "object" /\ IsStringField(j.analysis) /\ IsStringField(j.text) /\ IsStringField(j.description)
MalformedBody(text) ==
  \/ text.form = "plain" /\ text.s # <<>>
  \/ text.form = "json" /\ ~SchemaConforming(text.j)
C8_MalformedBodyGivesFallback ==
  (stage = "analyzeSinglePage" /\ lastResponse # NoResponse /\ MalformedBody(lastResponse.text))
    => /\ pc = "done"
       /\ Count(log, Ev("fn", "", 0)) = 1 + Count(log, ThrowQuota)
       /\ result = [kind |-> "page",
                    v |-> [analysis |-> JStr("processing error"), text |-> JStr(""),
                           description |-> JStr("")]]

\* C9 (as claimed): in generateVideo, once a status re-fetch has failed with a
\* rate-limit error, no new job submission is issued in that invocation.
C9_NoResubmitAfterRefetchFailure ==
  stage = "generateVideo" =>
    \A i \in 1..Len(log) : \A j \in 1..Len(log) :
      ~ /\ i < j
        /\ log[i] = Ev("call", "getVideosOperation", 0)
        /\ log[i + 1] = ThrowQuota
        /\ log[j] = Ev("call", "generateVideos", 0)

\* C10 (as claimed): in generateVideo a failure of the media fetch, whatever
\* it carries, reaches the caller and is followed by no wait, no second fetch
\* and no new job submission.
C10_FetchFailureNotRetried ==
  stage = "generateVideo" =>
    \A i \in 1..Len(log) :
      (log[i] = Ev("call", "fetch", 0) /\ i < Len(log))
        => /\ i + 1 = Len(log)
           /\ log[i + 1].e = "throw"
           /\ pc = "failed"
           /\ error = lastRemoteError

\* C11 (as claimed): an invocation in flight keeps using the credential it
\* started with for all its remote interactions -- generation calls, job
\* submission, status re-fetches and the final authenticated fetch -- whatever
\* setApiKey does meanwhile.
C11_InFlightKeepsCredential ==
  pc = "remote" =>
    /\ pending.kind \in {"generateContent", "generateVideos", "getVideosOperation"}
         => pending.key = startKey
    /\ pending.kind = "fetch" => pending.req = <<operation.uri, "&key=">> \o startKey

\* C12 (as claimed): in every stage a remote failure that indicates rate
\* limiting, by one of the three message markers or by status 429 alone, is
\* retried while retries remain: an invocation that rejects right after such
\* a failure has spent its budget.
C12_RateLimitRetriedInEveryStage ==
  (/\ pc = "failed"
   /\ lastRemoteError # NoError
   /\ \/ Includes(lastRemoteError.message, <<"429">>)
      \/ Includes(lastRemoteError.message, <<"RESOURCE_EXHAUSTED">>)
      \/ Includes(lastRemoteError.message, <<"Quota exceeded">>)
      \/ lastRemoteError.status = 429)
    => retries = 0

\* C13 (as claimed): in every stage, when a remote call fails and is not
\* retried further, the caller receives the very error of that remote call,
\* with the same message and the same status.
C13_RemoteErrorDeliveredUnchanged ==
  (pc = "failed" /\ lastRemoteError # NoError) => error = lastRemoteError

\* C14: in generateSpeech, generateMultiSpeakerAudio and
\* generateStoryboardImage a successful response without the expected inline
\* payload (the first part's for the audio stages, any part's for the image
\* stage) makes the invocation reject in that very step with the stage's
\* missing-payload error: no wait is started, no further call is issued, no
\* blob is returned, and the response's call is the only call of its attempt
\* (the only call of the invocation when no rate-limited failure preceded).
C14_PayloadMissing(st, parts) ==
  IF st = "generateStoryboardImage"
  THEN \A i \in DOMAIN parts : parts[i].inline = ""
  ELSE parts = <<>> \/ parts[1].inline = ""

C15_StatusArrives ==
  /\ pc = "remote"
  /\ pending.kind \in {"generateVideos", "getVideosOperation"}
  /\ lastRemoteError' = NoError
  /\ <<pc, pending>>' # <<pc, pending>>

C15_PollingLoopUncapped ==
  [][stage = "generateVideo" =>
       /\ (pc = "pollwait" /\ <<pc, log, pending>>' # <<pc, log, pending>>)
            => /\ pc' = "remote"
               /\ pending'.kind = "getVideosOperation"
               /\ log' = Append(log, Ev("call", "getVideosOperation", 0))
               /\ result' = NoResult /\ error' = NoError
       /\ (C15_StatusArrives /\ ~operation'.done)
            => /\ pc' = "pollwait"
               /\ pending'.kind = "none"
               /\ log' = Append(log, Ev("wait", "poll", 5000))
               /\ result' = NoResult /\ error' = NoError
       /\ (C15_StatusArrives /\ operation'.done) => pc' # "pollwait"
       /\ (/\ pc \in {"remote", "pollwait"}
           /\ pending.kind \in {"none", "generateVideos", "getVideosOperation"}
           /\ pc' \in {"done", "failed", "backoff"} \/ pending'.kind = "fetch")
            => operation'.done \/ lastRemoteError' # NoError
    ]_vars

C15_Witness ==
  /\ pc = "pollwait"
  /\ stage = "generateVideo"
  /\ polls = 2
  /\ Count(log, Ev("wait", "poll", 5000)) = 2
  /\ Count(log, Ev("call", "getVideosOperation", 0)) = 1
  /\ result = NoResult /\ error = NoError

\* C16: translateToEnglish resolves with the response's text when the response
\* carries a non-empty one and otherwise with its input text unchanged; a
\* response never makes it fail; and the prompt generateVideo submits to the
\* video job, on the first submission and on a retry, is that value.
C16_Translated ==
  IF lastResponse.text.form = "plain" /\ lastResponse.text.s # <<>>
  THEN lastResponse.text.s
  ELSE args.text

C16_TranslationOrOriginal ==
  /\ (stage = "translateToEnglish" /\ pc = "done")
       => result = [kind |-> "text", v |-> C16_Translated]
  /\ (stage = "translateToEnglish" /\ pc = "failed")
       => lastRemoteError # NoError \/ error.message = <<"API Key missing">>
  /\ (stage = "generateVideo" /\ pending.kind = "generateVideos")
       => pending.req = C16_Translated
  /\ (stage = "generateVideo" /\ phase = "translate" /\ pc = "failed")
       => lastRemoteError # NoError \/ error.message = <<"API Key missing">>

C16_Witness ==
  /\ stage = "generateVideo"
  /\ pending.kind = "generateVideos"
  /\ args.text = <<"x">>
  /\ lastResponse.text.form = "undefined"
  /\ pending.req = <<"x">>
  /\ Count(log, Ev("call", "generateVideos", 0)) = 2

\* C17: an invocation has a remote interaction outstanding exactly while it
\* awaits one, and then only that one: none is outstanding during a backoff
\* wait or a poll-interval wait (the last thing it did was start the timer),
\* nor before it starts or after it has settled, and every interaction issued
\* earlier has settled before the outstanding one was issued.
C17_OneOutstandingNoneWhileWaiting ==
  /\ pc \in {"backoff", "pollwait"} =>
       /\ pending.kind = "none"
       /\ log[Len(log)].e = "wait"
       /\ log[Len(log)].k = (IF pc = "backoff" THEN "backoff" ELSE "poll")
  /\ pc \in {"idle", "done", "failed"} => pending.kind = "none"
  /\ pc = "remote" =>
       /\ pending.kind \in {"generateContent", "generateVideos", "getVideosOperation",
                            "fetch", "blob"}
       /\ log[Len(log)] = Ev("call", IF pending.kind = "blob" THEN "fetch" ELSE pending.kind, 0)
  /\ \A i \in 1..(Len(log) - 1) :
       (log[i].e = "call" /\ log[i + 1].e = "call") =>
          \* the earlier call resolved in the step that issued the later one
          /\ log[i].k \in {"generateContent", "generateVideos", "getVideosOperation"}
          /\ log[i + 1].k \in {"fetch"}

C17_Witness ==
  /\ pc = "backoff"
  /\ stage = "generateVideo"
  /\ phase = "main"
  /\ polls = 1
  /\ pending.kind = "none"
  /\ log[Len(log) - 2] = Ev("call", "getVideosOperation", 0)

\* C18: within one job attempt of generateVideo the job goes Submitted, then
\* Pending any number of times, then Done. A status re-fetch is issued only
\* from a poll wait that followed a not-done status of this attempt, hence
\* after the submit call returned; a status with the completion flag true is
\* followed by no re-fetch and no poll wait; the media fetch is issued only
\* in the step a status arrives that is done and carries a locator; and the
\* attempt's history is: submit, (wait, re-fetch)*, then at most one fetch.
C18_AttemptOrder(l) ==
  \A i \in 1..Len(l) :
    /\ l[i] = Ev("call", "generateVideos", 0) => i > 1 /\ l[i - 1].e = "fn"
    /\ (l[i].e = "wait" /\ l[i].k = "poll") =>
         i > 1 /\ l[i - 1].e = "call" /\ l[i - 1].k \in {"generateVideos", "getVideosOperation"}
    /\ l[i] = Ev("call", "getVideosOperation", 0) =>
         i > 1 /\ l[i - 1].e = "wait" /\ l[i - 1].k = "poll"
    /\ l[i] = Ev("call", "fetch", 0) =>
         /\ i > 1 /\ l[i - 1].e = "call" /\ l[i - 1].k \in {"generateVideos", "getVideosOperation"}
         /\ i < Len(l) => l[i + 1].e = "throw"

C18_JobStateOrder ==
  [][stage = "generateVideo" =>
       /\ log' # log => C18_AttemptOrder(log')
       /\ (pending.kind # "getVideosOperation" /\ pending'.kind = "getVideosOperation")
            => /\ pc = "pollwait"
               /\ ~operation.done
               /\ Count(log, Ev("call", "generateVideos", 0)) >= 1
       /\ (/\ pc = "remote"
           /\ pending.kind \in {"generateVideos", "getVideosOperation"}
           /\ pending' # pending
           /\ lastRemoteError' = NoError
           /\ operation'.done)
            => /\ pc' # "pollwait"
               /\ pending'.kind \in {"none", "fetch"}
       /\ (pending.kind # "fetch" /\ pending'.kind = "fetch")
            => /\ pending.kind \in {"generateVideos", "getVideosOperation"}
               /\ operation'.done
               /\ operation'.uri # ""
       /\ pending.kind \in {"fetch", "blob"} => pending'.kind \in {"fetch", "blob", "none"}
    ]_vars

C18_Witness ==
  /\ pc = "done"
  /\ stage = "generateVideo"
  /\ polls = 1
  /\ operation.done /\ operation.uri # ""
  /\ Count(log, Ev("call", "generateVideos", 0)) = 2
  /\ Count(log, Ev("call", "getVideosOperation", 0)) = 1
  /\ log[Len(log)] = Ev("call", "fetch", 0)

\* C19: in a generateVideo invocation the video job is submitted at most
\* twice, whatever the remote failures, and between two submissions there is
\* exactly one backoff wait, of 2000 units.
C19_Submissions == {i \in 1..Len(log) : log[i] = Ev("call", "generateVideos", 0)}

C19_AtMostTwoSubmissions ==
  stage = "generateVideo" =>
    /\ Cardinality(C19_Submissions) <= 2
    /\ \A i, j \in C19_Submissions :
         i < j =>
           LET waits == {k \in (i + 1)..(j - 1) : log[k].e = "wait" /\ log[k].k = "backoff"}
           IN /\ Cardinality(waits) = 1
              /\ \A k \in waits : log[k].d = 2000

C19_Witness ==
  /\ stage = "generateVideo"
  /\ pc = "failed"
  /\ Cardinality(C19_Submissions) = 2
  /\ Count(log, Ev("wait", "backoff", 2000)) = 1
  /\ retries = 0
  /\ lastRemoteError.status = 429

\* C20: in generateVideo the translation runs once, before and outside the
\* retried job. At most 4 translation calls are issued and all of them
\* precede the first job submission; while the translation has not returned,
\* and so when it fails, no job is submitted; once the job phase has begun
\* the translated prompt never changes, no translation call is issued, and
\* every submission, the retried one included, carries that same prompt.
C20_Calls(l) ==
  SelectSeq(l, LAMBDA ev : ev.e = "call" /\ ev.k \in {"generateContent", "generateVideos"})

C20_TranslationFirst ==
  LET calls == C20_Calls(log)
  IN /\ Cardinality({i \in 1..Len(calls) : calls[i].k = "generateContent"}) <= 4
     /\ \A i \in 1..(Len(calls) - 1) :
          calls[i].k = "generateVideos" => calls[i + 1].k = "generateVideos"
     /\ phase = "translate" => \A i \in 1..Len(calls) : calls[i].k = "generateContent"
     /\ pending.kind = "generateVideos" => pending.req = englishPrompt

C20_TranslationOnceOutsideRetry ==
  [][(stage = "generateVideo" /\ stage' = "generateVideo") =>
       /\ <<log, phase, pending>>' # <<log, phase, pending>> => C20_TranslationFirst'
       /\ phase = "main" =>
            /\ phase' = "main"
            /\ englishPrompt' = englishPrompt
            /\ pending'.kind # "generateContent"
            /\ \A i \in (Len(log) + 1)..Len(log') : log'[i] # Ev("call", "generateContent", 0)
    ]_vars

C20_Witness ==
  /\ stage = "generateVideo"
  /\ pc = "remote"
  /\ pending.kind = "generateVideos"
  /\ pending.req = <<"e">>
  /\ args.text = <<"x">>
  /\ Count(log, Ev("call", "generateContent", 0)) = 4
  /\ Count(log, Ev("call", "generateVideos", 0)) = 2

====
